---- MODULE Spec2Model ----
(***************************************************************************)
(* Model of src/gui/pages/page_cursor.py: the FrameSelectGesture row set   *)
(* (slider + numeric entry per configuration key) and the PageCursor page  *)
(* that hosts it.                                                          *)
(*                                                                         *)
(* Texts are sequences of characters, so that str(), int() and             *)
(* str.isdigit() are computed and not assumed.  Slider positions are held  *)
(* in units of 1/Res, so that the float the slider reports and the int()   *)
(* the page takes of it are different things.  The slider variable is the  *)
(* value the page last gave to slider.set() or the position the user last  *)
(* moved the slider to.                                                    *)
(***************************************************************************)
EXTENDS Integers, Sequences, FiniteSets, TLC

\* ---------------------------------------------------------------- bounds
Res == 2
MaxTraceIds == 2

\* ------------------------------------------------------ program constants
MAX_HOLD_TRIG == 2000
CLIP_MIN == 1

\* The rows create_divs is called with: cfg_name -> (slider_min, slider_max).
directions ==
    [cfg_name \in {"spd_up", "spd_down", "spd_right", "spd_left",
                   "pointer_smooth", "shape_smooth", "hold_trigger_ms"} |->
        CASE cfg_name \in {"spd_up", "spd_down", "spd_right", "spd_left"} ->
                 [slider_min |-> 0, slider_max |-> 100]
          [] cfg_name \in {"pointer_smooth", "shape_smooth"} ->
                 [slider_min |-> 1, slider_max |-> 100]
          [] OTHER ->
                 [slider_min |-> 1, slider_max |-> MAX_HOLD_TRIG]]

\* The rows that are explored: one with slider_min = 0 and slider_max below
\* MAX_HOLD_TRIG, one with slider_min = 1 and slider_max = MAX_HOLD_TRIG.
\* The other rows are built by the same loop with bounds equal to one of
\* these in each respect.
Rows == {"spd_up", "hold_trigger_ms"}

NoRow == "none"

\* ------------------------------------------------------------------ text
\* Characters are one-character strings.  "sup2" stands for the character
\* SUPERSCRIPT TWO: str.isdigit() accepts it and int() does not.  "a" is a
\* letter, "-" the minus sign.
DecChar == [d \in 0..9 |-> CASE d = 0 -> "0" [] d = 1 -> "1" [] d = 2 -> "2"
                             [] d = 3 -> "3" [] d = 4 -> "4" [] d = 5 -> "5"
                             [] d = 6 -> "6" [] d = 7 -> "7" [] d = 8 -> "8"
                             [] OTHER -> "9"]
DecVal == [c \in {DecChar[d] : d \in 0..9} |-> CHOOSE d \in 0..9 : DecChar[d] = c]

AsciiDigits == {DecChar[d] : d \in 0..9}
UnicodeDigits == AsciiDigits \cup {"sup2"}

\* str.isdigit(P): non-empty and every character is a (Unicode) digit.
isdigit(P) == Len(P) > 0 /\ \A i \in 1..Len(P) : P[i] \in UnicodeDigits

AllAscii(P) == Len(P) > 0 /\ \A i \in 1..Len(P) : P[i] \in AsciiDigits

RECURSIVE DecimalValue(_)
DecimalValue(P) ==
    IF Len(P) = 0 THEN 0
    ELSE 10 * DecimalValue(SubSeq(P, 1, Len(P) - 1)) + DecVal[P[Len(P)]]

\* int(P) on a str: an optional sign followed by ASCII digits; anything else
\* raises ValueError.
IntRaises(P) ==
    ~ (AllAscii(P) \/ (Len(P) > 1 /\ P[1] = "-" /\ AllAscii(Tail(P))))

PyInt(P) ==
    IF P[1] = "-" THEN 0 - DecimalValue(Tail(P)) ELSE DecimalValue(P)

RECURSIVE NatStr(_)
NatStr(n) == IF n < 10 THEN <<DecChar[n]>>
             ELSE Append(NatStr(n \div 10), DecChar[n % 10])

\* str(n), which is what StringVar.set(n) stores for an int n.
PyStr(n) == IF n < 0 THEN <<"-">> \o NatStr(0 - n) ELSE NatStr(n)

\* int(x) of the float a slider reports (x >= 0, in units of 1/Res).
FloatToInt(x) == x \div Res

\* The float a slider holds after slider.set(n) with an int n.
IntToFloat(n) == n * Res

\* np.clip(x, a_min, a_max)
clip(x, a_min, a_max) == IF x < a_min THEN a_min ELSE IF x > a_max THEN a_max ELSE x

\* range(a, b) membership
InRange(n, a, b) == a <= n /\ n < b
\* ----------------------------------------------------------------- state
VARIABLES
    slider_dragging,   \* self.slider_dragging
    slider,            \* div["slider"] value per row, in units of 1/Res
    entry_var,         \* div["entry_var"] text per row
    fg_color,          \* div["entry"] fg_color per row
    entry_traces,      \* write traces registered on div["entry_var"] per row
    entry_trace_id,    \* div["entry_trace_id"] per row
    config,            \* ConfigManager().config, committed values
    staged,            \* values staged by set_temp_config and not yet applied
    calls,             \* collaborator calls made by the last handler, in order
    raised,            \* the last handler ended in an exception
    ev,                \* the last handler that ran and the row it ran on
    deferred,          \* rows whose entry shows a valid text that was written
                       \* during a drag and has not been staged since
    balance,           \* over all handlers so far: set_temp_config calls minus
                       \* apply_config calls, and apply_config calls minus
                       \* calc_smooth_kernel calls
    val_in,            \* arguments of the last validate_entry_input call
    val_out            \* its outcome: "True", "False" or "ValueError"

vars == <<slider_dragging, slider, entry_var, fg_color, entry_traces,
          entry_trace_id, config, staged, calls, raised, ev, deferred,
          balance, val_in, val_out>>

\* The variables of the page itself.
page_vars == <<slider_dragging, slider, entry_var, fg_color, entry_traces,
               entry_trace_id, config, staged, calls, raised, ev, deferred,
               balance>>

TraceIds == 1..MaxTraceIds

THEME == "theme"
WHITE == "white"
ERROR_COLOR == "#ee9e9d"

\* What the user can type into an entry.
TypedTexts == { <<>>, <<"sup2">>, <<"-", "5">>, <<"0", "0">>,
                <<"2", "0", "0", "0">> }

\* Where the user can put the slider of a row: the upper end, and a position
\* just above the lower end that is not a whole number.
SliderPositions(r) ==
    LET lo == directions[r].slider_min * Res
        hi == directions[r].slider_max * Res
    IN  {lo + 1, hi}

\* Profiles the host application can load into the configuration store.
Profiles ==
    { [r \in Rows |-> IF r = "spd_up" THEN 0 ELSE 2500],
      [r \in Rows |-> IF r = "spd_up" THEN 2000 ELSE 7] }

\* The page as one value, so that a handler is a function from page to page.
Page ==
    [slider_dragging |-> slider_dragging, slider |-> slider,
     entry_var |-> entry_var, fg_color |-> fg_color,
     entry_traces |-> entry_traces, entry_trace_id |-> entry_trace_id,
     config |-> config, staged |-> staged, calls |-> <<>>, raised |-> FALSE,
     deferred |-> deferred]

\* How many of the calls in a sequence are calls of op.
CountOp(cs, op) == Cardinality({i \in 1..Len(cs) : cs[i].op = op})

Install(s) ==
    /\ slider_dragging' = s.slider_dragging
    /\ slider' = s.slider
    /\ entry_var' = s.entry_var
    /\ fg_color' = s.fg_color
    /\ entry_traces' = s.entry_traces
    /\ entry_trace_id' = s.entry_trace_id
    /\ config' = s.config
    /\ staged' = s.staged
    /\ calls' = s.calls
    /\ raised' = s.raised
    /\ deferred' = s.deferred
    /\ balance' =
          [stage_apply |-> balance.stage_apply
                             + CountOp(s.calls, "set_temp_config")
                             - CountOp(s.calls, "apply_config"),
           apply_kernel |-> balance.apply_kernel
                              + CountOp(s.calls, "apply_config")
                              - CountOp(s.calls, "calc_smooth_kernel")]
    /\ UNCHANGED <<val_in, val_out>>

\* ------------------------------------------------------- collaborators
Call(op, field, value) == [op |-> op, field |-> field, value |-> value]

\* ConfigManager().set_temp_config(field, value): stage a value.
set_temp_config(s, field, value) ==
    [s EXCEPT !.staged = {p \in @ : p[1] # field} \cup {<<field, value>>},
              !.calls = Append(@, Call("set_temp_config", field, value)),
              !.deferred = @ \ {field}]

\* ConfigManager().apply_config(): commit the staged values.
apply_config(s) ==
    [s EXCEPT !.config = [k \in DOMAIN @ |->
                             IF \E p \in s.staged : p[1] = k
                             THEN (CHOOSE p \in s.staged : p[1] = k)[2]
                             ELSE @[k]],
              !.staged = {},
              !.calls = Append(@, Call("apply_config", NoRow, 0))]

\* MouseController().calc_smooth_kernel()
calc_smooth_kernel(s) ==
    [s EXCEPT !.calls = Append(@, Call("calc_smooth_kernel", NoRow, 0))]

\* ------------------------------------------------------------- handlers
\* entry_changed_callback without its range check: any digit text is taken.
entry_changed_callback_NoRangeCheck(s, div_name, slider_min, slider_max) ==
    LET entry_value == s.entry_var[div_name]
    IN  IF ~ isdigit(entry_value)
        THEN [s EXCEPT !.fg_color[div_name] = ERROR_COLOR]
        ELSE IF IntRaises(entry_value)
        THEN [s EXCEPT !.raised = TRUE]
        ELSE LET new_value == PyInt(entry_value)
                 t == [s EXCEPT !.fg_color[div_name] = WHITE,
                                !.slider[div_name] = IntToFloat(new_value)]
             IN  IF ~ t.slider_dragging
                 THEN calc_smooth_kernel(apply_config(
                          set_temp_config(t, div_name, new_value)))
                 ELSE [t EXCEPT !.deferred = @ \cup {div_name}]

entry_changed_callback(s, div_name, slider_min, slider_max) ==
    LET entry_value == s.entry_var[div_name]
    IN  IF ~ isdigit(entry_value)
        THEN [s EXCEPT !.fg_color[div_name] = ERROR_COLOR]
        ELSE IF IntRaises(entry_value)
        THEN [s EXCEPT !.raised = TRUE]
        ELSE LET new_value == PyInt(entry_value)
             IN  IF ~ InRange(new_value, slider_min, slider_max)
                 THEN [s EXCEPT !.fg_color[div_name] = ERROR_COLOR]
                 ELSE LET t == [s EXCEPT !.fg_color[div_name] = WHITE,
                                         !.slider[div_name] = IntToFloat(new_value)]
                      IN  IF ~ t.slider_dragging
                          THEN calc_smooth_kernel(apply_config(
                                   set_temp_config(t, div_name, new_value)))
                          ELSE [t EXCEPT !.deferred = @ \cup {div_name}]

\* entry_trace_fn bound late: every row's callback carries the name and the
\* bounds of the last row of the loop.
entry_trace_fn_LateBinding(s, div_name) ==
    entry_changed_callback(s, "hold_trigger_ms",
                           directions["hold_trigger_ms"].slider_min,
                           directions["hold_trigger_ms"].slider_max)

\* div["entry_trace_fn"]: the callback with the row's name and bounds bound in.
entry_trace_fn(s, div_name) ==
    entry_changed_callback(s, div_name, directions[div_name].slider_min,
                           directions[div_name].slider_max)

\* A write to div["entry_var"]: the text is stored and every registered
\* write trace runs once.
RECURSIVE FireTraces(_, _, _)
FireTraces(s, div_name, n) ==
    IF n = 0 THEN s ELSE FireTraces(entry_trace_fn(s, div_name), div_name, n - 1)

entry_var_set(s, div_name, text) ==
    FireTraces([s EXCEPT !.entry_var[div_name] = text,
                         !.deferred = @ \ {div_name}], div_name,
               Cardinality(s.entry_traces[div_name]))

slider_drag_callback(s, div_name, new_value) ==
    entry_var_set([s EXCEPT !.slider_dragging = TRUE], div_name,
                  PyStr(FloatToInt(new_value)))

slider_mouse_down_callback(s, div_name) ==
    [s EXCEPT !.slider_dragging = TRUE]

\* slider_mouse_up_callback clearing the flag only after int() has succeeded.
slider_mouse_up_callback_FlagAfterInt(s, div_name) ==
    LET text == s.entry_var[div_name]
    IN  IF IntRaises(text)
        THEN [s EXCEPT !.raised = TRUE]
        ELSE calc_smooth_kernel(apply_config(
                 set_temp_config([s EXCEPT !.slider_dragging = FALSE],
                                 div_name, PyInt(text))))

\* slider_mouse_up_callback without the kernel recomputation.
slider_mouse_up_callback_NoKernel(s, div_name) ==
    LET t == [s EXCEPT !.slider_dragging = FALSE]
        text == t.entry_var[div_name]
    IN  IF IntRaises(text)
        THEN [t EXCEPT !.raised = TRUE]
        ELSE apply_config(set_temp_config(t, div_name, PyInt(text)))

slider_mouse_up_callback(s, div_name) ==
    LET t == [s EXCEPT !.slider_dragging = FALSE]
        text == t.entry_var[div_name]
    IN  IF IntRaises(text)
        THEN [t EXCEPT !.raised = TRUE]
        ELSE calc_smooth_kernel(apply_config(
                 set_temp_config(t, div_name, PyInt(text))))

\* LoadRow clipping to the row's own bounds instead of [1, MAX_HOLD_TRIG].
LoadRow_RowClip(s, cfg_name, new_id) ==
    LET cfg_value == clip(s.config[cfg_name], directions[cfg_name].slider_min,
                          directions[cfg_name].slider_max)
    IN  [s EXCEPT !.slider[cfg_name] = IntToFloat(cfg_value),
                  !.entry_traces[cfg_name] =
                      (@ \ {s.entry_trace_id[cfg_name]}) \cup {new_id},
                  !.entry_var[cfg_name] = PyStr(cfg_value),
                  !.deferred = @ \ {cfg_name},
                  !.entry_trace_id[cfg_name] = new_id]

\* LoadRow writing the entry while its trace is still attached.
LoadRow_TraceAttached(s, cfg_name, new_id) ==
    LET cfg_value == clip(s.config[cfg_name], CLIP_MIN, MAX_HOLD_TRIG)
        t == entry_var_set([s EXCEPT !.slider[cfg_name] = IntToFloat(cfg_value)],
                           cfg_name, PyStr(cfg_value))
    IN  [t EXCEPT !.entry_traces[cfg_name] =
                      (@ \ {s.entry_trace_id[cfg_name]}) \cup {new_id},
                  !.entry_trace_id[cfg_name] = new_id]

\* LoadRow without the trace_vdelete: the old trace stays registered and
\* trace() hands out a name that is not in use.
LoadRow_NoTraceDelete(s, cfg_name, new_id) ==
    LET cfg_value == clip(s.config[cfg_name], CLIP_MIN, MAX_HOLD_TRIG)
        free == TraceIds \ s.entry_traces[cfg_name]
        id == IF free = {} THEN new_id ELSE CHOOSE i \in free : TRUE
    IN  [s EXCEPT !.slider[cfg_name] = IntToFloat(cfg_value),
                  !.entry_traces[cfg_name] = @ \cup {id},
                  !.entry_var[cfg_name] = PyStr(cfg_value),
                  !.deferred = @ \ {cfg_name},
                  !.entry_trace_id[cfg_name] = id]

\* One row of load_initial_config; new_id is the id the re-registered trace
\* gets.
LoadRow(s, cfg_name, new_id) ==
    LET cfg_value == clip(s.config[cfg_name], CLIP_MIN, MAX_HOLD_TRIG)
    IN  [s EXCEPT !.slider[cfg_name] = IntToFloat(cfg_value),
                  !.entry_traces[cfg_name] =
                      (@ \ {s.entry_trace_id[cfg_name]}) \cup {new_id},
                  !.entry_var[cfg_name] = PyStr(cfg_value),
                  !.deferred = @ \ {cfg_name},
                  !.entry_trace_id[cfg_name] = new_id]

RECURSIVE LoadRows(_, _, _)
LoadRows(s, todo, ids) ==
    IF todo = {} THEN s
    ELSE LET r == CHOOSE x \in todo : TRUE
         IN  LoadRows(LoadRow(s, r, ids[r]), todo \ {r}, ids)

load_initial_config(s, ids) == LoadRows(s, Rows, ids)

\* The ids trace() hands out in a load.  An id is an opaque name that must
\* not be registered already; nothing depends on which free name it is, so
\* the least one is taken.
FreshIds(s) ==
    [r \in Rows |->
        LET free == TraceIds \ (s.entry_traces[r] \ {s.entry_trace_id[r]})
        IN  CHOOSE i \in free : \A j \in free : i <= j]

\* ------------------------------------------------- validation helper
\* The outcome of validate_entry_input(P, slider_min, slider_max).  int() of
\* an int bound is that bound.
validate_entry_input(P, slider_min, slider_max) ==
    IF isdigit(P)
    THEN IF IntRaises(P) THEN "ValueError"
         ELSE IF PyInt(P) < slider_min THEN "False"
         ELSE IF PyInt(P) > slider_max THEN "False"
         ELSE "True"
    ELSE "False"

\* Texts and bounds validate_entry_input is called with.
ValidateTexts ==
    TypedTexts \cup { <<"a">>, <<"1">>, <<"9", "9">>, <<"1", "0", "0">>,
                      <<"1", "0", "1">>, <<"0", "1">> }

ValidateBounds == {-1, 0, 1, 100, MAX_HOLD_TRIG}

NoCall == [P |-> <<>>, slider_min |-> 0, slider_max |-> 0]

\* --------------------------------------------------------------- actions
\* The rows as create_divs leaves them, before the first load: empty entries
\* in the theme's colour, one write trace each, sliders in the middle.
create_divs(cfg) ==
    [slider_dragging |-> FALSE,
     slider |-> [r \in Rows |->
                    ((directions[r].slider_min + directions[r].slider_max) * Res) \div 2],
     entry_var |-> [r \in Rows |-> <<>>],
     fg_color |-> [r \in Rows |-> THEME],
     entry_traces |-> [r \in Rows |-> {1}],
     entry_trace_id |-> [r \in Rows |-> 1],
     config |-> cfg, staged |-> {}, calls |-> <<>>, raised |-> FALSE,
     deferred |-> {}]

\* State after FrameSelectGesture.__init__: the rows are created and loaded
\* from whatever profile the store holds.
Init ==
    \E p \in Profiles :
        LET s == load_initial_config(create_divs(p), FreshIds(create_divs(p)))
        IN  /\ slider_dragging = s.slider_dragging
            /\ slider = s.slider
            /\ entry_var = s.entry_var
            /\ fg_color = s.fg_color
            /\ entry_traces = s.entry_traces
            /\ entry_trace_id = s.entry_trace_id
            /\ config = s.config
            /\ staged = s.staged
            /\ calls = s.calls
            /\ raised = s.raised
            /\ deferred = s.deferred
            /\ ev = [name |-> "init", row |-> NoRow]
            /\ balance = [stage_apply |-> 0, apply_kernel |-> 0]
            /\ val_in = NoCall
            /\ val_out = "none"

\* <Button-1> on the slider of row r.
Press(r) ==
    /\ ev' = [name |-> "press", row |-> r]
    /\ Install(slider_mouse_down_callback(Page, r))

\* The user moves the slider of row r to pos; the slider calls its command.
Move(r, pos) ==
    /\ ev' = [name |-> "move", row |-> r]
    /\ Install(slider_drag_callback([Page EXCEPT !.slider[r] = pos], r, pos))

\* <ButtonRelease-1> on the slider of row r.
Release(r) ==
    /\ ev' = [name |-> "release", row |-> r]
    /\ Install(slider_mouse_up_callback(Page, r))

\* The user edits the entry of row r: its text variable is written.
TextChange(r, text) ==
    /\ ev' = [name |-> "text", row |-> r]
    /\ Install(entry_var_set(Page, r, text))

\* PageCursor.refresh_profile -> inner_refresh_profile -> load_initial_config
refresh_profile ==
    /\ ev' = [name |-> "refresh", row |-> NoRow]
    /\ Install(load_initial_config(Page, FreshIds(Page)))

\* The host loads another profile into the store and refreshes the page.
ProfileSwitch(p) ==
    /\ ev' = [name |-> "profile_switch", row |-> NoRow]
    /\ Install(load_initial_config([Page EXCEPT !.config = p], FreshIds(Page)))

Next ==
    \/ \E r \in Rows : Press(r)
    \/ \E r \in Rows : \E pos \in SliderPositions(r) : Move(r, pos)
    \/ \E r \in Rows : Release(r)
    \/ \E r \in Rows : \E text \in TypedTexts : TextChange(r, text)
    \/ refresh_profile
    \/ \E p \in Profiles : ProfileSwitch(p)

Spec == Init /\ [][Next]_vars

\* A call of validate_entry_input on the constructed page.  The method reads
\* and writes nothing of the page.
Validate(P, slider_min, slider_max) ==
    /\ val_in' = [P |-> P, slider_min |-> slider_min, slider_max |-> slider_max]
    /\ val_out' = validate_entry_input(P, slider_min, slider_max)
    /\ UNCHANGED page_vars

ValidateNext ==
    \E P \in ValidateTexts : \E lo \in ValidateBounds : \E hi \in ValidateBounds :
        Validate(P, lo, hi)

ValidateSpec == Init /\ [][ValidateNext]_vars

\* ------------------------------------------------------------ properties
\* The entry of row r is marked as an error.
Errored(r) == fg_color[r] = ERROR_COLOR

\* The text is one the entry validation of row r accepts.
Accepts(r, text) ==
    /\ isdigit(text)
    /\ ~ IntRaises(text)
    /\ InRange(PyInt(text), directions[r].slider_min, directions[r].slider_max)

\* The text stands for an integer inside the declared bounds of row r, both
\* ends included.
InDeclaredRange(r, text) ==
    /\ AllAscii(text)
    /\ directions[r].slider_min <= PyInt(text)
    /\ PyInt(text) <= directions[r].slider_max

CountCalls(op) == Cardinality({i \in 1..Len(calls) : calls[i].op = op})

Commit(field, value) ==
    << Call("set_temp_config", field, value), Call("apply_config", NoRow, 0),
       Call("calc_smooth_kernel", NoRow, 0) >>

Loaded == ev.name \in {"init", "refresh", "profile_switch"}

\* C1: at rest (not dragging), every row whose entry text is valid has its
\* slider value, the integer value of its text and the stored value of its
\* key all equal.
C1_RestInvariant ==
    ~ slider_dragging =>
        \A r \in Rows :
            Accepts(r, entry_var[r]) =>
                /\ slider[r] = IntToFloat(PyInt(entry_var[r]))
                /\ PyInt(entry_var[r]) = config[r]

\* C2: after load_initial_config (construction, refresh, refresh after a
\* profile switch) every row's slider and entry text equal
\* clip(store value, 1, MAX_HOLD_TRIG), and the rows are the same rows.
C2_LoadShowsClippedStore ==
    Loaded =>
        /\ DOMAIN slider = Rows /\ DOMAIN entry_var = Rows
        /\ DOMAIN fg_color = Rows /\ DOMAIN config = Rows
        /\ \A r \in Rows :
              /\ slider[r] = IntToFloat(clip(config[r], 1, 2000))
              /\ entry_var[r] = PyStr(clip(config[r], 1, 2000))

\* C2 witness: a refresh after a profile switch has replaced an entry that
\* was marked as an error, with a stored value that the clip changes.
C2_Witness ==
    /\ ev.name = "profile_switch"
    /\ \E r \in Rows : Errored(r) /\ config[r] > MAX_HOLD_TRIG
                        /\ entry_var[r] = <<"2", "0", "0", "0">>

\* C3: a load makes no set_temp_config, apply_config or calc_smooth_kernel
\* call and leaves the store as it found it.
C3_LoadNeverWritesBack ==
    [][ /\ ev'.name = "refresh" =>
              calls' = <<>> /\ config' = config /\ staged' = staged
        /\ ev'.name = "profile_switch" =>
              calls' = <<>> /\ config' \in Profiles /\ staged' = staged ]_vars

\* C3 witness: a refresh has loaded a value that the clip changed into a row
\* whose entry showed an invalid text before.
C3_Witness ==
    /\ ev.name = "refresh"
    /\ calls = <<>>
    /\ \E r \in Rows : /\ config[r] # clip(config[r], 1, 2000)
                        /\ Errored(r)
                        /\ Accepts(r, entry_var[r])

\* C4: a slider movement sets the row's entry text to the new integer value
\* and makes no stage and no apply call; a release makes exactly one stage
\* and exactly one apply call.
C4_DragProtocol ==
    /\ ev.name = "move" =>
          /\ entry_var[ev.row] = PyStr(FloatToInt(slider[ev.row]))
          /\ CountCalls("set_temp_config") = 0
          /\ CountCalls("apply_config") = 0
    /\ ev.name = "release" =>
          /\ CountCalls("set_temp_config") = 1
          /\ CountCalls("apply_config") = 1

\* C5: when not dragging, a text change to the digits of an integer v inside
\* the row's inclusive bounds clears the error mark, sets the slider to v and
\* makes exactly the calls stage(key, v), apply_config, calc_smooth_kernel.
C5_ValidEntryCommits ==
    (ev.name = "text" /\ ~ slider_dragging
        /\ InDeclaredRange(ev.row, entry_var[ev.row])) =>
        /\ ~ Errored(ev.row)
        /\ slider[ev.row] = IntToFloat(PyInt(entry_var[ev.row]))
        /\ calls = Commit(ev.row, PyInt(entry_var[ev.row]))

\* The two kinds of invalid text C6 names: a text that is not all digits
\* (the empty text included), and an integer outside the row's bounds.
InvalidText(r, text) ==
    \/ ~ isdigit(text)
    \/ /\ AllAscii(text)
       /\ \/ PyInt(text) < directions[r].slider_min
          \/ PyInt(text) > directions[r].slider_max

C7_InvalidNeverCommitted ==
    \A i \in 1..Len(calls) :
        calls[i].op = "set_temp_config" =>
            /\ InRange(calls[i].value, directions[calls[i].field].slider_min,
                       directions[calls[i].field].slider_max)
            /\ Accepts(calls[i].field, entry_var[calls[i].field])

\* C8: no handler ends in an exception.
C8_NoHandlerRaises == ~ raised

\* C9: every row is declared with slider_min >= 1, and a loaded row whose
\* entry is not marked as an error shows a value inside its own bounds.
C9_ValueWithinDeclaredRange ==
    /\ \A r \in DOMAIN directions : directions[r].slider_min >= 1
    /\ \A r \in Rows :
          ~ Errored(r) =>
              /\ InDeclaredRange(r, entry_var[r])
              /\ directions[r].slider_min * Res <= slider[r]
              /\ slider[r] <= directions[r].slider_max * Res

\* C10: a release on row R clears slider_dragging, takes the integer value v
\* of R's entry text and makes exactly the calls set_temp_config(R, v),
\* apply_config, calc_smooth_kernel, in that order.
C10_ReleaseCommitsEntry ==
    ev.name = "release" =>
        /\ ~ slider_dragging
        /\ ~ IntRaises(entry_var[ev.row])
        /\ calls = Commit(ev.row, PyInt(entry_var[ev.row]))

\* C11: a commit deferred by dragging is not lost: when a release handler has
\* finished, no row is left showing a valid text that was written during the
\* drag and never staged and applied under its key.
C11_DeferredCommitNotLost ==
    ev.name = "release" =>
        \A r \in Rows :
            r \in deferred => config[r] = PyInt(entry_var[r])

\* C12 as stated: slider_dragging is the two-state machine Idle/Dragging
\* driven by press and release alone: false after construction, true after a
\* press, false after a release, and changed by no other handler.
C12_PressReleaseOnly ==
    /\ ~ slider_dragging
    /\ [][ /\ ev'.name = "press" => slider_dragging'
           /\ ev'.name = "release" => ~ slider_dragging'
           /\ ev'.name \notin {"press", "release"} =>
                 slider_dragging' = slider_dragging ]_vars

\* C12 amended: slider_dragging is true after a press and after a slider
\* movement, false after a release (also one that raises), and is left as it
\* is by text changes typed by the user, by refresh and by a profile switch.
C12_DragFlagMachine ==
    /\ ~ slider_dragging
    /\ [][ /\ ev'.name \in {"press", "move"} => slider_dragging'
           /\ ev'.name = "release" => ~ slider_dragging'
           /\ ev'.name \in {"text", "refresh", "profile_switch"} =>
                 slider_dragging' = slider_dragging ]_vars

\* C12 witness: a release that raised has still cleared the flag.
C12_Witness ==
    ev.name = "release" /\ raised /\ ~ slider_dragging

\* C13: a slider movement to any position inside the row's inclusive bounds,
\* both ends included, leaves the row's entry not marked as an error.
C13_MoveNeverMarksError ==
    ev.name = "move" => ~ Errored(ev.row)

\* C14: validate_entry_input(P, slider_min, slider_max) returns True exactly
\* when P is a non-empty text of decimal digits whose value lies in
\* [slider_min, slider_max], and returns False otherwise.
C14_ValidateIffDecimalInRange ==
    val_out # "none" =>
        val_out = IF /\ AllAscii(val_in.P)
                     /\ val_in.slider_min <= DecimalValue(val_in.P)
                     /\ DecimalValue(val_in.P) <= val_in.slider_max
                  THEN "True" ELSE "False"

\* C15: across any number of loads every row's entry variable has exactly
\* one write trace, the one whose id is in entry_trace_id, and a valid text
\* change outside a drag makes exactly one commit.
C15_OneTracePerRow ==
    /\ \A r \in Rows :
          /\ Cardinality(entry_traces[r]) = 1
          /\ entry_traces[r] = {entry_trace_id[r]}
    /\ (ev.name = "text" /\ ~ slider_dragging
            /\ Accepts(ev.row, entry_var[ev.row])) =>
          calls = Commit(ev.row, PyInt(entry_var[ev.row]))

\* C15 witness: a valid text change has made its one commit after a load that
\* followed construction (the other row shows a loaded value under an error
\* mark that only an earlier text change can have set).
C15_Witness ==
    /\ ev.name = "text"
    /\ ~ slider_dragging
    /\ Accepts(ev.row, entry_var[ev.row])
    /\ calls = Commit(ev.row, PyInt(entry_var[ev.row]))
    /\ \E b \in Rows \ {ev.row} : Errored(b) /\ Accepts(b, entry_var[b])

\* C16: commits are atomic triples: after every handler the numbers of
\* set_temp_config, apply_config and calc_smooth_kernel calls made so far are
\* equal, and the handler's calls are a sequence of triples set_temp_config,
\* apply_config, calc_smooth_kernel.
C16_CommitsAreTriples ==
    /\ balance = [stage_apply |-> 0, apply_kernel |-> 0]
    /\ Len(calls) % 3 = 0
    /\ \A k \in 0..((Len(calls) \div 3) - 1) :
          /\ calls[3 * k + 1].op = "set_temp_config"
          /\ calls[3 * k + 2].op = "apply_config"
          /\ calls[3 * k + 3].op = "calc_smooth_kernel"

\* C16 witness: a release has committed one row while the other row still
\* shows a deferred value, and made one triple for it.
C16_Witness ==
    /\ ev.name = "release"
    /\ Len(calls) = 3
    /\ calls[1].field = ev.row
    /\ deferred # {}

\* C17: commit then refresh is a round trip: a refresh that follows a commit
\* of v for a row by this page (a valid entry edit or a drag release) leaves
\* that row's slider and entry showing v.
C17_CommitRefreshRoundTrip ==
    [][ (ev'.name = "refresh" /\ ev.name \in {"text", "release"}
            /\ Len(calls) = 3) =>
            /\ slider'[ev.row] = IntToFloat(calls[1].value)
            /\ entry_var'[ev.row] = PyStr(calls[1].value) ]_vars

\* C18: in every state and for every row, the entry is marked as an error
\* exactly when its text fails the row's entry validation.
C18_ErrorMarkAgreesWithText ==
    \A r \in Rows : Errored(r) <=> ~ Accepts(r, entry_var[r])

\* C19: a text change, a slider movement or a release on one row leaves every
\* other row's slider value, entry text and error mark as they were and
\* stages nothing under another row's key.
C19_RowsIsolated ==
    [][ ev'.name \in {"text", "move", "release"} =>
            \A b \in Rows \ {ev'.row} :
                /\ slider'[b] = slider[b]
                /\ entry_var'[b] = entry_var[b]
                /\ fg_color'[b] = fg_color[b]
                /\ \A i \in 1..Len(calls') : calls'[i].field # b ]_vars

\* C19 witness: during a drag a valid text was typed into one row while the
\* other row was marked as an error, and that mark is still there.
C19_Witness ==
    /\ ev.name = "text"
    /\ slider_dragging
    /\ ev.row \in deferred
    /\ \E b \in Rows \ {ev.row} : Errored(b) /\ ~ Accepts(b, entry_var[b])
====
